---- MODULE Spec2Model ----
(***************************************************************************)
(* Model of the multi-host remote-execution layer of the service manager:  *)
(*   src/src/utils/ssh.py            run_command                           *)
(*   src/src/service_controller.py   single-host operations and the three  *)
(*                                   *_parallel dispatchers                *)
(*   src/src/monitoring.py           collect_metrics, generate_report,     *)
(*                                   notifications, monitor_service_health *)
(*   src/src/utils/validators.py     validate_config_schema                *)
(*   src/cli.py                      the commands that make the calls      *)
(*                                                                         *)
(* Text is modelled as a sequence of tokens (words, punctuation and        *)
(* explicit whitespace tokens), so that strip(), split() and the regular   *)
(* expression of check_service_status are computed, not assumed.           *)
(* Percentages are fixed-point numbers in tenths (35 is 3.5).              *)
(***************************************************************************)
EXTENDS Integers, Sequences, FiniteSets, Bags, TLC

VARIABLES
    hosts,         \* the host list handed to the call (list of dicts)
    service_name,  \* the service the call is about
    op,            \* which operation the call applies per host
    remote,        \* what each remote host answers (fixed for a behaviour)
    max_workers,   \* the max_workers argument of the running dispatch
    pc,            \* position of the calling thread in the dispatcher
    nsub,          \* how many hosts the dict comprehension has submitted
    task,          \* per list index: state of the submitted work item
    future,        \* per list index: what the Future holds
    issued,        \* per list index: the commands run_command attempted
    finished,      \* indices in the order their futures completed
    snapshot,      \* futures already finished when as_completed started
    collected,     \* indices in the order as_completed yielded them
    results,       \* the `results` list of the dispatcher
    exc,           \* exception propagating out of the dispatcher
    serial,        \* how the last finished call with max_workers=1 ended
    ret,           \* what a direct single-host call gave its caller
    args,          \* further arguments of a direct call (thresholds, config)
    prev           \* what the direct call before the last one gave

vars == <<hosts, service_name, op, remote, max_workers, pc, nsub, task,
          future, issued, finished, snapshot, collected, results, exc,
          serial, ret, args, prev>>

----------------------------------------------------------------------------
(* Bounds of the model *)

MaxHosts == 3
MaxWorkers == 3

HostNames == {"web1", "web2"}
Services == {"nginx"}

Min(a, b) == IF a < b THEN a ELSE b

Range(s) == {s[i] : i \in DOMAIN s}

BagOfSeq(s) == [x \in Range(s) |-> Cardinality({i \in DOMAIN s : s[i] = x})]

----------------------------------------------------------------------------
(* Text as token sequences *)

WS == {" ", "\n"}

\* tokens made of \w characters only
Words == {"active", "inactive", "failed", "activating", "unknown", "error",
          "dead", "running", "start", "loaded", "Unit", "not", "found",
          "since"}

\* the leading run of \w characters of a token, "" when it has none
WordPrefix(t) ==
    IF t \in Words THEN t
    ELSE IF t = "Active:" THEN "Active"
    ELSE IF t = "Loaded:" THEN "Loaded"
    ELSE ""

RECURSIVE LStrip(_)
LStrip(s) == IF s # <<>> /\ Head(s) \in WS THEN LStrip(Tail(s)) ELSE s

RECURSIVE RStrip(_)
RStrip(s) ==
    IF s # <<>> /\ s[Len(s)] \in WS THEN RStrip(SubSeq(s, 1, Len(s) - 1)) ELSE s

\* str.strip()
Strip(s) == RStrip(LStrip(s))

\* s[:n]
Take(s, n) == SubSeq(s, 1, Min(n, Len(s)))

----------------------------------------------------------------------------
(* Values a call produces *)

Ret(v, log) == [raised |-> FALSE, value |-> v, log |-> log]
Raise(e, m, log) == [raised |-> TRUE, exc |-> e, msg |-> m, log |-> log]

NoResult == [raised |-> FALSE, value |-> [pending |-> TRUE], log |-> <<>>]

HasHost(h) == "host" \in DOMAIN h

----------------------------------------------------------------------------
(* The remote side *)

Ok(out) == [failed |-> FALSE, stdout |-> out, stderr |-> <<>>]
Fail(err) == [failed |-> TRUE, stdout |-> <<>>, stderr |-> err]

ConnError == <<"Unable to connect">>

\* pids the remote process table knows, and the pid systemd reports for
\* a service without a main process
Pids == {"11", "12", "13", "14", "15", "16", "17"}

PsLine(c, m) == Ok(<<c, " ", " ", m, "\n">>)

Healthy ==
    [up |-> TRUE, start |-> Ok(<<>>), stop |-> Ok(<<>>), restart |-> Ok(<<>>),
     isactive |-> Ok(<<"active", "\n">>),
     status |-> Ok(<<"Active:", " ", "active", " ", "(", "running", ")">>),
     mainpid |-> Ok(<<"11", "\n">>),
     pgrep |-> Ok(<<"11", "\n", "12", "\n">>),
     ps |-> [p \in Pids |-> PsLine("1.0", "2.0")],
     hangs |-> FALSE]

Unreachable == [Healthy EXCEPT !.up = FALSE]

\* a host that accepts the connection and never answers the command:
\* conn.run and conn.sudo are called without a timeout
Hanging == [Healthy EXCEPT !.hangs = TRUE]

\* what a host may be like in a dispatch
DispatchRemotes == {Unreachable, Healthy}

\* a command line: the verb and its argument (a service name or a pid)
Cmd(verb, arg) == [verb |-> verb, arg |-> arg]

\* a remote file
Absent == [exists |-> FALSE, text |-> <<>>]
File(text) == [exists |-> TRUE, text |-> text]

\* cp <target> <target>.bak on a host with these files
CpAnswer(rem) ==
    IF ~rem.files.target.exists
    THEN Fail(<<"cp: cannot stat: No such file or directory">>)
    ELSE IF ~rem.bakwritable
    THEN Fail(<<"cp: cannot create regular file: Permission denied">>)
    ELSE Ok(<<>>)

\* cat <target>
CatAnswer(rem) ==
    IF ~rem.files.target.exists
    THEN Fail(<<"cat: No such file or directory">>)
    ELSE Ok(rem.files.target.text)

\* conn.run / conn.sudo of the command on the host: the answer of the remote
Exec(name, command) ==
    CASE command.verb = "start" -> remote[name].start
      [] command.verb = "cp" -> CpAnswer(remote[name])
      [] command.verb = "cat" -> CatAnswer(remote[name])
      [] command.verb = "stop" -> remote[name].stop
      [] command.verb = "restart" -> remote[name].restart
      [] command.verb = "is-active" -> remote[name].isactive
      [] command.verb = "status" -> remote[name].status
      [] command.verb = "show-mainpid" -> remote[name].mainpid
      [] command.verb = "pgrep" -> remote[name].pgrep
      [] OTHER ->
           IF Len(command.arg) = 1 /\ command.arg[1] \in Pids
           THEN remote[name].ps[command.arg[1]]
           ELSE Fail(<<"ps: no such process">>)

----------------------------------------------------------------------------
(* src/src/utils/ssh.py *)

\* variant: the wrapped message leaves the host out
SSHFailed_noHost(name, inner) == <<"SSH command failed: ">> \o inner

SSHFailed(name, inner) == <<"SSH command failed on ", name, ": ">> \o inner

run_command(host_config, command, sudo) ==
    IF ~HasHost(host_config)
    THEN \* get_connection raises KeyError; so does the except handler
         Raise("KeyError", <<"'host'">>, <<>>)
    ELSE LET name == host_config.host
             cmd == [host |-> name, command |-> command, sudo |-> sudo,
                     reached |-> remote[name].up]
             r == Exec(name, command)
         IN IF ~remote[name].up
            THEN Raise("Exception", SSHFailed(name, ConnError), <<cmd>>)
            ELSE IF r.failed
            THEN Raise("Exception",
                       SSHFailed(name, <<"Command failed: ">> \o r.stderr),
                       <<cmd>>)
            ELSE Ret(Strip(r.stdout), <<cmd>>)

----------------------------------------------------------------------------
(* src/src/service_controller.py: single-host operations *)

RawLimit == 300

RECURSIVE SkipWS(_, _)
SkipWS(s, j) == IF j <= Len(s) /\ s[j] \in WS THEN SkipWS(s, j + 1) ELSE j

\* the text matched by (\w+) starting at token j
RECURSIVE WordRun(_, _)
WordRun(s, j) ==
    IF j > Len(s) THEN <<>>
    ELSE IF s[j] \in Words THEN <<s[j]>> \o WordRun(s, j + 1)
    ELSE IF WordPrefix(s[j]) # "" THEN <<WordPrefix(s[j])>>
    ELSE <<>>

ActiveMatchAt(detail, i) ==
    /\ detail[i] = "Active:"
    /\ i + 1 <= Len(detail)
    /\ detail[i + 1] \in WS
    /\ WordRun(detail, SkipWS(detail, i + 1)) # <<>>

\* variant: the last token of the text is taken for the state
re_search_Active_lastToken(detail) ==
    IF detail = <<>> THEN <<>> ELSE <<detail[Len(detail)]>>

\* re.search(r'Active:\s+(\w+)', detail): group(1), or <<>> for no match
re_search_Active(detail) ==
    LET M == {i \in 1..Len(detail) : ActiveMatchAt(detail, i)}
    IN IF M = {} THEN <<>>
       ELSE LET i == CHOOSE k \in M : \A l \in M : k <= l
            IN WordRun(detail, SkipWS(detail, i + 1))

\* variant: "failed" is not taken from is-active directly
SimpleStates_noFailed == {<<"active">>, <<"inactive">>}

SimpleStates == {<<"active">>, <<"inactive">>, <<"failed">>}

\* variant: only the is-active command is inside the try block
check_service_status_fallbackUncaught(host, svc) ==
    LET r1 == run_command(host, Cmd("is-active", <<svc>>), FALSE)
        status_output == Strip(r1.value)
        r2 == run_command(host, Cmd("status", <<svc>>), FALSE)
        m == re_search_Active(r2.value)
    IN IF r1.raised
       THEN IF HasHost(host)
            THEN Ret([host |-> host.host, service |-> svc,
                      status |-> <<"error">>, error |-> r1.msg], r1.log)
            ELSE Raise("KeyError", <<"'host'">>, r1.log)
       ELSE IF status_output \notin SimpleStates
       THEN IF r2.raised THEN Raise(r2.exc, r2.msg, r1.log \o r2.log)
            ELSE Ret([host |-> host.host, service |-> svc,
                      status |-> IF m # <<>> THEN m ELSE status_output,
                      raw |-> Take(r2.value, RawLimit)],
                     r1.log \o r2.log)
       ELSE Ret([host |-> host.host, service |-> svc,
                 status |-> status_output, raw |-> status_output], r1.log)

check_service_status(host, svc) ==
    LET r1 == run_command(host, Cmd("is-active", <<svc>>), FALSE)
        status_output == Strip(r1.value)
        r2 == run_command(host, Cmd("status", <<svc>>), FALSE)
        m == re_search_Active(r2.value)
        handler(e, log) ==
            IF HasHost(host)
            THEN Ret([host |-> host.host, service |-> svc,
                      status |-> <<"error">>, error |-> e.msg], log)
            ELSE Raise("KeyError", <<"'host'">>, log)
    IN IF r1.raised THEN handler(r1, r1.log)
       ELSE IF status_output \notin SimpleStates
       THEN IF r2.raised THEN handler(r2, r1.log \o r2.log)
            ELSE Ret([host |-> host.host, service |-> svc,
                      status |-> IF m # <<>> THEN m ELSE status_output,
                      raw |-> Take(r2.value, RawLimit)],
                     r1.log \o r2.log)
       ELSE Ret([host |-> host.host, service |-> svc,
                 status |-> status_output, raw |-> status_output], r1.log)

\* variant: the error outcome is built without the service name
service_action_noService(host, svc, verb, done) ==
    LET r == run_command(host, Cmd(verb, <<svc>>), TRUE)
    IN IF ~r.raised
       THEN Ret([host |-> host.host, service |-> svc, result |-> done], r.log)
       ELSE IF HasHost(host)
       THEN Ret([host |-> host.host, result |-> "error", error |-> r.msg],
                r.log)
       ELSE Raise("KeyError", <<"'host'">>, r.log)

\* the common shape of start_service, stop_service and restart_service
service_action(host, svc, verb, done) ==
    LET r == run_command(host, Cmd(verb, <<svc>>), TRUE)
    IN IF ~r.raised
       THEN Ret([host |-> host.host, service |-> svc, result |-> done], r.log)
       ELSE IF HasHost(host)
       THEN Ret([host |-> host.host, service |-> svc, result |-> "error",
                 error |-> r.msg], r.log)
       ELSE Raise("KeyError", <<"'host'">>, r.log)

\* variant: a failed start is tried a second time
start_service_retry(host, svc) ==
    LET r == service_action(host, svc, "start", "started")
    IN IF r.raised \/ r.value.result # "error" THEN r
       ELSE [r EXCEPT !.log = r.log \o r.log]

start_service(host, svc) == service_action(host, svc, "start", "started")

stop_service(host, svc) == service_action(host, svc, "stop", "stopped")

restart_service(host, svc) == service_action(host, svc, "restart", "restarted")

----------------------------------------------------------------------------
(* src/src/monitoring.py: collect_metrics *)

\* pids[:5]
FallbackLimit == 5

\* str(e)[:50], counted in tokens
ErrLimit == 50

NumTokens == {"0.0", "0.5", "1.0", "2.0", "3.0", "80.0", "85.0", "90.0"}

\* float(tok) in tenths, for a token float() accepts
TenthsOf(tok) ==
    CASE tok = "0.0" -> 0
      [] tok = "0.5" -> 5
      [] tok = "1.0" -> 10
      [] tok = "2.0" -> 20
      [] tok = "80.0" -> 800
      [] tok = "85.0" -> 850
      [] tok = "90.0" -> 900
      [] OTHER -> 30

\* float(part) raises ValueError unless the part is one numeric token
IsFloat(part) == Len(part) = 1 /\ part[1] \in NumTokens

float(part) == TenthsOf(part[1])

\* s.split(sep) for a set of separator tokens; keepEmpty as split('\n')
\* does, dropping empty pieces as split() does
RECURSIVE SplitAt(_, _, _, _)
SplitAt(s, seps, keepEmpty, cur) ==
    IF s = <<>>
    THEN IF cur # <<>> \/ keepEmpty THEN <<cur>> ELSE <<>>
    ELSE IF Head(s) \in seps
    THEN (IF cur # <<>> \/ keepEmpty THEN <<cur>> ELSE <<>>)
             \o SplitAt(Tail(s), seps, keepEmpty, <<>>)
    ELSE SplitAt(Tail(s), seps, keepEmpty, Append(cur, Head(s)))

\* str.split()
Split(s) == SplitAt(s, WS, FALSE, <<>>)

\* str.split('\n')
SplitLines(s) == SplitAt(s, {"\n"}, TRUE, <<>>)

\* the loop over pids[:5]: acc holds total_cpu, total_mem and the commands
RECURSIVE SumSamples(_, _, _)
SumSamples(host, pids, acc) ==
    IF pids = <<>> THEN acc
    ELSE LET pid == Strip(Head(pids))
             r == run_command(host, Cmd("ps", pid), FALSE)
             parts == Split(Strip(r.value))
             next ==
                 IF pid = <<>> THEN acc
                 ELSE IF r.raised THEN [acc EXCEPT !.log = @ \o r.log]
                 ELSE IF Strip(r.value) = <<>> \/ Len(parts) < 2
                 THEN [acc EXCEPT !.log = @ \o r.log]
                 ELSE IF ~IsFloat(parts[1])
                 THEN [acc EXCEPT !.log = @ \o r.log]
                 ELSE IF ~IsFloat(parts[2])
                 THEN [acc EXCEPT !.cpu = @ + float(parts[1]),
                                  !.log = @ \o r.log]
                 ELSE [cpu |-> acc.cpu + float(parts[1]),
                       mem |-> acc.mem + float(parts[2]),
                       log |-> acc.log \o r.log]
         IN SumSamples(host, Tail(pids), next)

\* "Method 1": the MainPID of the unit and one ps sample of it;
\* raised tells that the inner try block was left by an exception
PrimarySample(host, svc) ==
    LET r == run_command(host, Cmd("show-mainpid", <<svc>>), FALSE)
        pid == Strip(r.value)
        ps == run_command(host, Cmd("ps", pid), FALSE)
        parts == Split(Strip(ps.value))
    IN IF r.raised
       THEN [cpu |-> 0, mem |-> 0, log |-> r.log, raised |-> TRUE]
       ELSE IF pid = <<>> \/ pid = <<"0">>
       THEN [cpu |-> 0, mem |-> 0, log |-> r.log, raised |-> FALSE]
       ELSE IF ps.raised
       THEN [cpu |-> 0, mem |-> 0, log |-> r.log \o ps.log, raised |-> TRUE]
       ELSE IF Strip(ps.value) = <<>> \/ Len(parts) < 2 \/ ~IsFloat(parts[1])
       THEN [cpu |-> 0, mem |-> 0, log |-> r.log \o ps.log, raised |-> FALSE]
       ELSE [cpu |-> float(parts[1]),
             mem |-> IF IsFloat(parts[2]) THEN float(parts[2]) ELSE 0,
             log |-> r.log \o ps.log, raised |-> FALSE]

\* variant: the sums start from what the primary stage sampled
FallbackSample_added(host, svc, prim) ==
    LET r == run_command(host, Cmd("pgrep", <<svc>>), FALSE)
        pids == SplitLines(Strip(r.value))
        sum == SumSamples(host, Take(pids, FallbackLimit),
                          [cpu |-> prim.cpu, mem |-> prim.mem,
                           log |-> prim.log \o r.log])
    IN IF r.raised \/ Strip(r.value) = <<>>
       THEN [prim EXCEPT !.log = @ \o r.log]
       ELSE [cpu |-> sum.cpu, mem |-> sum.mem, log |-> sum.log,
             raised |-> FALSE]

\* "Method 2": pgrep by service name and the sum of the ps samples
FallbackSample(host, svc, prim) ==
    LET r == run_command(host, Cmd("pgrep", <<svc>>), FALSE)
        pids == SplitLines(Strip(r.value))
        sum == SumSamples(host, Take(pids, FallbackLimit),
                          [cpu |-> 0, mem |-> 0, log |-> prim.log \o r.log])
    IN IF r.raised \/ Strip(r.value) = <<>>
       THEN [prim EXCEPT !.log = @ \o r.log]
       ELSE [cpu |-> sum.cpu, mem |-> sum.mem, log |-> sum.log,
             raised |-> FALSE]

collect_metrics(host, svc) ==
    IF ~HasHost(host)
    THEN Raise("KeyError", <<"'host'">>, <<>>)
    ELSE LET base == [host |-> host.host, service |-> svc,
                      status |-> <<"unknown">>, cpu |-> 0, memory |-> 0,
                      uptime |-> "N/A", time |-> "now"]
             r == run_command(host, Cmd("is-active", <<svc>>), FALSE)
             status == IF r.value # <<>> THEN Strip(r.value)
                       ELSE <<"inactive">>
             prim == PrimarySample(host, svc)
             smp == IF ~prim.raised /\ prim.cpu = 0
                    THEN FallbackSample(host, svc, prim)
                    ELSE prim
         IN IF r.raised
            THEN Ret([base EXCEPT
                         !.status = <<"error: ">> \o Take(r.msg, ErrLimit)],
                     r.log)
            ELSE Ret([base EXCEPT !.status = status, !.cpu = smp.cpu,
                                  !.memory = smp.mem],
                     r.log \o smp.log)

----------------------------------------------------------------------------
(* src/src/monitoring.py: generate_report *)

\* f"{x:.1f}" of a value held in tenths
Fmt1(x) == ToString(x \div 10) \o "." \o ToString(x % 10)

\* the cells of one table row
Row(m) ==
    [host |-> m.host, service |-> m.service,
     status |-> IF m.status = <<"active">>
                THEN <<"[green]">> \o m.status \o <<"[/green]">>
                ELSE <<"[red]">> \o m.status \o <<"[/red]">>,
     cpu |-> Fmt1(m.cpu), memory |-> Fmt1(m.memory), time |-> m.time]

\* one line of the plain-text version
ReportLine(m) ==
    <<"Host: ", m.host, " | Service: ", m.service, " | ", "Status: ">>
        \o m.status
        \o <<" | CPU: ", Fmt1(m.cpu), "% | Memory: ", Fmt1(m.memory), "%">>

\* "\n".join(lines)
RECURSIVE Join(_)
Join(lines) ==
    IF lines = <<>> THEN <<>>
    ELSE IF Len(lines) = 1 THEN lines[1]
    ELSE lines[1] \o <<"\n">> \o Join(Tail(lines))

\* variant: only the hosts whose status could be read are listed
generate_report_reachableOnly(metrics) ==
    LET ok == SelectSeq(metrics, LAMBDA m : m.status = <<>> \/ Head(m.status) # "error: ")
    IN [rows |-> [k \in 1..Len(ok) |-> Row(ok[k])],
        text |-> Join(<<<<"\n", "=== Service Metrics Report ===">>>>
                          \o [k \in 1..Len(ok) |-> ReportLine(ok[k])])]

\* rows: what table.add_row received, in order; text: the returned string
generate_report(metrics) ==
    [rows |-> [k \in 1..Len(metrics) |-> Row(metrics[k])],
     text |-> Join(<<<<"\n", "=== Service Metrics Report ===">>>>
                       \o [k \in 1..Len(metrics) |-> ReportLine(metrics[k])])]

\* one step of [collect_metrics(h, service_name) for h in hosts]: the
\* outcome r joins the outcomes so far, or its exception ends the loop
Collected(acc, r) ==
    IF r.raised THEN Raise(r.exc, r.msg, acc.log \o r.log)
    ELSE Ret(Append(acc.value, r.value), acc.log \o r.log)

\* the list comprehension over the hosts, left at the first exception
RECURSIVE CollectAll(_, _, _)
CollectAll(hs, svc, acc) ==
    IF hs = <<>> \/ acc.raised THEN acc
    ELSE CollectAll(Tail(hs), svc,
                    Collected(acc, collect_metrics(Head(hs), svc)))

\* the end of monitor_dashboard: an exception of a collect_metrics call
\* aborts the command before any report is made
Reported(all) ==
    IF all.raised THEN Raise("Abort", all.msg, all.log)
    ELSE Ret(generate_report(all.value), all.log)

\* cli.py monitor_dashboard
monitor_dashboard(hs, svc) == Reported(CollectAll(hs, svc, Ret(<<>>, <<>>)))

----------------------------------------------------------------------------
(* src/src/monitoring.py: notifications and monitor_service_health *)

\* thresholds=None
None == [none |-> TRUE]

\* {"cpu": 80.0, "memory": 80.0}
DefaultThresholds == [cpu |-> 800, memory |-> 800]

Placeholder == "your-email@gmail.com"

\* the mail environment: SMTP_USER ("" when unset) and whether the SMTP
\* server accepts the message
send_email_notification(message, severity, smtp) ==
    IF smtp.user = "" \/ smtp.user = Placeholder THEN FALSE
    ELSE smtp.delivers

\* the console line, and the return value
send_notification(message, severity, email, smtp) ==
    [message |-> message, severity |-> severity, email |-> email,
     result |-> IF email THEN send_email_notification(message, severity, smtp)
                ELSE TRUE]

\* variant: a value at its threshold raises the alert too
Alerts_atThreshold(metrics, thresholds) ==
    (IF metrics.cpu >= thresholds.cpu
     THEN <<<<"CPU usage high: ", Fmt1(metrics.cpu), "%">>>> ELSE <<>>)
    \o (IF metrics.memory >= thresholds.memory
        THEN <<<<"Memory usage high: ", Fmt1(metrics.memory), "%">>>>
        ELSE <<>>)
    \o (IF metrics.status \notin {<<"active">>, <<"running">>}
        THEN <<<<"Service not active: ">> \o metrics.status>> ELSE <<>>)

\* the threshold checks of monitor_service_health: the `alerts` list
Alerts(metrics, thresholds) ==
    (IF metrics.cpu > thresholds.cpu
     THEN <<<<"CPU usage high: ", Fmt1(metrics.cpu), "%">>>> ELSE <<>>)
    \o (IF metrics.memory > thresholds.memory
        THEN <<<<"Memory usage high: ", Fmt1(metrics.memory), "%">>>>
        ELSE <<>>)
    \o (IF metrics.status \notin {<<"active">>, <<"running">>}
        THEN <<<<"Service not active: ">> \o metrics.status>> ELSE <<>>)

\* variant: the loop ends at the first notification that returns False
Notify_untilFailure(host, svc, alerts, email, smtp) ==
    LET all == [k \in 1..Len(alerts) |->
                   send_notification(
                       <<host.host, " - ", svc, ": ">> \o alerts[k],
                       "WARNING", email, smtp)]
        failed == {k \in 1..Len(all) : ~all[k].result}
    IN IF failed = {} THEN all
       ELSE SubSeq(all, 1, CHOOSE k \in failed : \A l \in failed : k <= l)

\* the for loop over alerts: the send_notification calls made, in order
Notify(host, svc, alerts, email, smtp) ==
    [k \in 1..Len(alerts) |->
        send_notification(<<host.host, " - ", svc, ": ">> \o alerts[k],
                          "WARNING", email, smtp)]

\* os.getenv('SMTP_USER') and os.getenv('SMTP_USER') != placeholder
EmailEnabled(smtp) == smtp.user # "" /\ smtp.user # Placeholder

\* the end of monitor_service_health, from the notifications on: value is
\* the metrics with 'alerts', notified the notifications sent
Alerted(host, svc, smtp, r, alerts) ==
    [raised |-> FALSE,
     value |-> [alerts |-> alerts] @@ r.value,
     log |-> r.log,
     notified |-> Notify(host, svc, alerts, EmailEnabled(smtp), smtp)]

\* monitor_service_health after collect_metrics gave (or raised) r
Evaluated(host, svc, thresholds, smtp, r) ==
    IF r.raised THEN r
    ELSE Alerted(host, svc, smtp, r, Alerts(r.value, thresholds))

monitor_service_health(host, svc, thresholds, smtp) ==
    Evaluated(host, svc,
              IF thresholds = None THEN DefaultThresholds ELSE thresholds,
              smtp, collect_metrics(host, svc))

----------------------------------------------------------------------------
(* src/src/utils/validators.py and src/src/config_manager.py *)

\* A value as json.load gives it: its Python type and what the `in`
\* operator finds in it (the keys of a dict, the elements of a list, the
\* substrings of a str that matter here).  A dict with the key 'service'
\* carries the value stored under it.
PyValue(type, has) == [type |-> type, has |-> has]

PyConfig(has, service) == [type |-> "dict", has |-> has, service |-> service]

required_keys ==
    <<"name", "version", "env", "port", "max_memory", "healthcheck">>

\* config['service']
Subscript_service(config) ==
    IF config.type = "dict"
    THEN IF "service" \in config.has THEN Ret(config.service, <<>>)
         ELSE Raise("KeyError", <<"'service'">>, <<>>)
    ELSE Raise("TypeError", <<config.type, " cannot be indexed by str">>,
               <<>>)

\* all(k in service for k in required_keys), from the i-th key on
RECURSIVE AllIn(_, _)
AllIn(service, i) ==
    IF i > Len(required_keys) THEN Ret(TRUE, <<>>)
    ELSE IF service.type \notin {"dict", "list", "str"}
    THEN Raise("TypeError",
               <<"argument of type ", service.type, " is not iterable">>,
               <<>>)
    ELSE IF required_keys[i] \notin service.has THEN Ret(FALSE, <<>>)
    ELSE AllIn(service, i + 1)

\* the try block, given what config['service'] gave; only KeyError is
\* caught
Checked(service) ==
    IF service.raised
    THEN IF service.exc = "KeyError" THEN Ret(FALSE, <<>>) ELSE service
    ELSE AllIn(service.value, 1)

validate_config_schema(config) == Checked(Subscript_service(config))

validate_config(config) == validate_config_schema(config)

----------------------------------------------------------------------------
(* src/src/service_controller.py: the parallel dispatchers *)

DispatchOps == {"start", "stop", "check"}

\* the callable each dispatcher submits: start_services_parallel submits
\* start_service, stop_services_parallel stop_service, and
\* check_status_parallel check_service_status
OpCall(o, host, svc) ==
    CASE o = "start" -> start_service(host, svc)
      [] o = "stop" -> stop_service(host, svc)
      [] o = "restart" -> restart_service(host, svc)
      [] o = "metrics" -> collect_metrics(host, svc)
      [] OTHER -> check_service_status(host, svc)

\* min(max_workers, len(hosts) or 1)
PoolSize(mw, n) == Min(mw, IF n = 0 THEN 1 ELSE n)

N == Len(hosts)

Running == {i \in 1..N : task[i] = "running"}

NoSummary == [status |-> "none", exc |-> "none", outcomes |-> EmptyBag]

Summary(status, e, res) ==
    [status |-> status, exc |-> e,
     outcomes |-> IF status = "returned" THEN BagOfSeq(res) ELSE EmptyBag]

\* entry of a *_parallel function: results = [] and the pool constructor,
\* which raises ValueError for max_workers <= 0
CallFrom(mw, from) ==
    /\ pc \in from
    /\ op \in DispatchOps
    /\ max_workers' = mw
    /\ results' = <<>>
    /\ nsub' = 0
    /\ task' = [i \in 1..N |-> "new"]
    /\ future' = [i \in 1..N |-> NoResult]
    /\ issued' = [i \in 1..N |-> <<>>]
    /\ finished' = <<>>
    /\ snapshot' = {}
    /\ collected' = <<>>
    /\ IF PoolSize(mw, N) <= 0
       THEN pc' = "raised" /\ exc' = "ValueError"
       ELSE pc' = "submit" /\ exc' = "none"
    /\ UNCHANGED <<hosts, service_name, op, remote, serial, ret, args, prev>>

\* the caller's first dispatch
Call(mw) == CallFrom(mw, {"idle"})

\* the caller dispatches again, over the same hosts, once a dispatch ended
Recall(mw) == CallFrom(mw, {"returned", "raised"})

\* one iteration of the dict comprehension: ex.submit(op, h, service_name)
Submit ==
    /\ pc = "submit"
    /\ nsub < N
    /\ nsub' = nsub + 1
    /\ task' = [task EXCEPT ![nsub + 1] = "queued"]
    /\ UNCHANGED <<hosts, service_name, op, remote, max_workers, pc, future,
                   issued, finished, snapshot, collected, results, exc,
                   serial, ret, args, prev>>

\* variant: a thread per work item, whatever max_workers says
Start_noSlot(i) ==
    /\ pc \in {"submit", "collect", "shutdown"}
    /\ task[i] = "queued"
    /\ \A j \in 1..N : task[j] = "queued" => i <= j
    /\ task' = [task EXCEPT ![i] = "running"]
    /\ UNCHANGED <<hosts, service_name, op, remote, max_workers, pc, nsub,
                   future, issued, finished, snapshot, collected, results,
                   exc, serial, ret, args, prev>>

\* a pool thread takes the oldest queued work item; the pool has at most
\* PoolSize threads
Start(i) ==
    /\ pc \in {"submit", "collect", "shutdown"}
    /\ task[i] = "queued"
    /\ \A j \in 1..N : task[j] = "queued" => i <= j
    /\ Cardinality(Running) < PoolSize(max_workers, N)
    /\ task' = [task EXCEPT ![i] = "running"]
    /\ UNCHANGED <<hosts, service_name, op, remote, max_workers, pc, nsub,
                   future, issued, finished, snapshot, collected, results,
                   exc, serial, ret, args, prev>>

\* the remote command of work item i never returns
Hangs(i) == HasHost(hosts[i]) /\ remote[hosts[i].host].hangs

\* the work item ends: the Future gets the value or the exception
Complete(i) ==
    /\ task[i] = "running"
    /\ ~Hangs(i)
    /\ LET r == OpCall(op, hosts[i], service_name)
       IN /\ future' = [future EXCEPT ![i] = [r EXCEPT !.log = <<>>]]
          /\ issued' = [issued EXCEPT ![i] = r.log]
    /\ task' = [task EXCEPT ![i] = "done"]
    /\ finished' = Append(finished, i)
    /\ UNCHANGED <<hosts, service_name, op, remote, max_workers, pc, nsub,
                   snapshot, collected, results, exc, serial, ret, args, prev>>

\* as_completed(futures) starts: it sets apart the futures already finished
BeginCollect ==
    /\ pc = "submit"
    /\ nsub = N
    /\ snapshot' = {i \in 1..N : task[i] = "done"}
    /\ pc' = "collect"
    /\ UNCHANGED <<hosts, service_name, op, remote, max_workers, nsub, task,
                   future, issued, finished, collected, results, exc,
                   serial, ret, args, prev>>

\* variant: as_completed yields only what had finished when it was entered
Yieldable_snapshotOnly == snapshot \ Range(collected)

\* the futures as_completed may yield next: the already-finished ones in
\* the iteration order of a set, then the others as they complete
Yieldable ==
    LET done == Range(collected)
        early == snapshot \ done
        late == {k \in 1..Len(finished) : finished[k] \notin done}
    IN IF early # {} THEN early
       ELSE IF late = {} THEN {}
       ELSE {finished[CHOOSE k \in late : \A l \in late : k <= l]}

\* variant: outcomes kept per host name, a repeated host reported once
Collect_perHost(i) ==
    /\ pc = "collect"
    /\ i \in Yieldable
    /\ collected' = Append(collected, i)
    /\ IF future[i].raised
       THEN /\ exc' = future[i].exc
            /\ pc' = "shutdown"
            /\ UNCHANGED results
       ELSE /\ results' =
                  IF \E k \in 1..Len(results) :
                         results[k].host = future[i].value.host
                  THEN results
                  ELSE Append(results, future[i].value)
            /\ pc' = IF Len(collected) + 1 = N THEN "shutdown" ELSE "collect"
            /\ UNCHANGED exc
    /\ UNCHANGED <<hosts, service_name, op, remote, max_workers, nsub, task,
                   future, issued, finished, snapshot, serial, ret, args, prev>>

\* one iteration of the for loop: results.append(fut.result())
Collect(i) ==
    /\ pc = "collect"
    /\ i \in Yieldable
    /\ collected' = Append(collected, i)
    /\ IF future[i].raised
       THEN /\ exc' = future[i].exc
            /\ pc' = "shutdown"
            /\ UNCHANGED results
       ELSE /\ results' = Append(results, future[i].value)
            /\ pc' = IF Len(collected) + 1 = N THEN "shutdown" ELSE "collect"
            /\ UNCHANGED exc
    /\ UNCHANGED <<hosts, service_name, op, remote, max_workers, nsub, task,
                   future, issued, finished, snapshot, serial, ret, args, prev>>

\* as_completed over no futures ends at once
CollectNone ==
    /\ pc = "collect"
    /\ N = 0
    /\ pc' = "shutdown"
    /\ UNCHANGED <<hosts, service_name, op, remote, max_workers, nsub, task,
                   future, issued, finished, snapshot, collected, results,
                   exc, serial, ret, args, prev>>

\* variant: leaving the with block does not wait for the pool
Exit_noJoin ==
    /\ pc = "shutdown"
    /\ pc' = IF exc = "none" THEN "returned" ELSE "raised"
    /\ serial' = IF max_workers = 1
                 THEN Summary(pc', exc, results)
                 ELSE serial
    /\ UNCHANGED <<hosts, service_name, op, remote, max_workers, nsub, task,
                   future, issued, finished, snapshot, collected, results,
                   exc, ret, args, prev>>

\* end of the with block: shutdown(wait=True) joins the pool threads, which
\* first run every queued work item; then return results, or re-raise
Exit ==
    /\ pc = "shutdown"
    /\ \A i \in 1..N : task[i] = "done"
    /\ pc' = IF exc = "none" THEN "returned" ELSE "raised"
    /\ serial' = IF max_workers = 1
                 THEN Summary(pc', exc, results)
                 ELSE serial
    /\ UNCHANGED <<hosts, service_name, op, remote, max_workers, nsub, task,
                   future, issued, finished, snapshot, collected, results,
                   exc, ret, args, prev>>

\* a call that takes nothing beyond the host and the service
NoArgs == [kind |-> "none"]

NoRet == [raised |-> FALSE, value |-> [pending |-> TRUE], log |-> <<>>]

HostEntries ==
    {[host |-> n, user |-> "ubuntu"] : n \in HostNames}
        \cup {[user |-> "ubuntu"]}

HostLists == UNION {[1..n -> HostEntries] : n \in 0..MaxHosts}

\* host names are interchangeable: of the lists and remote behaviours that
\* differ only by renaming the hosts one is kept, the one whose first named
\* entry is "web1" and where a name not in the list has a healthy host
Canonical(hs, rem) ==
    LET named == {i \in 1..Len(hs) : HasHost(hs[i])}
        used == {hs[i].host : i \in named}
    IN /\ named # {} => hs[CHOOSE i \in named : \A j \in named : i <= j].host
                            = "web1"
       /\ \A n \in HostNames \ used : rem[n] = Healthy

Init ==
    /\ hosts \in HostLists
    /\ service_name \in Services
    /\ op \in DispatchOps
    /\ remote \in [HostNames -> DispatchRemotes]
    /\ Canonical(hosts, remote)
    /\ max_workers = 0
    /\ pc = "idle"
    /\ nsub = 0
    /\ task = [i \in 1..Len(hosts) |-> "new"]
    /\ future = [i \in 1..Len(hosts) |-> NoResult]
    /\ issued = [i \in 1..Len(hosts) |-> <<>>]
    /\ finished = <<>>
    /\ snapshot = {}
    /\ collected = <<>>
    /\ results = <<>>
    /\ exc = "none"
    /\ serial = NoSummary
    /\ ret = NoRet
    /\ prev = NoRet
    /\ args = NoArgs

Next ==
    \/ \E mw \in 0..MaxWorkers : Call(mw)
    \/ Submit
    \/ \E i \in 1..N : Start(i)
    \/ \E i \in 1..N : Complete(i)
    \/ BeginCollect
    \/ \E i \in 1..N : Collect(i)
    \/ CollectNone
    \/ Exit

Spec == Init /\ [][Next]_vars

\* repeated dispatches over the same hosts and the same remote behaviour
MaxPairHosts == 2

InitPair == Init /\ Len(hosts) <= MaxPairHosts

NextPair ==
    \/ Next
    \/ \E mw \in 0..MaxWorkers : Recall(mw)

SpecPair == InitPair /\ [][NextPair]_vars

\* one dispatch with max_workers >= 1 in which a remote command may never
\* return, under fair scheduling of the calling thread and the pool threads
MaxLiveHosts == 2

LiveRemotes == {Unreachable, Healthy, Hanging}

\* the three dispatchers differ only in the callable they submit
LiveOps == {"start"}

\* a single worker, and more than one; with three every host has its own
LiveWorkers == {1, 2, 3}

InitLive ==
    /\ hosts \in UNION {[1..n -> HostEntries] : n \in 0..MaxLiveHosts}
    /\ service_name \in Services
    /\ op \in LiveOps
    /\ remote \in [HostNames -> LiveRemotes]
    /\ Canonical(hosts, remote)
    /\ max_workers = 0
    /\ pc = "idle"
    /\ nsub = 0
    /\ task = [i \in 1..Len(hosts) |-> "new"]
    /\ future = [i \in 1..Len(hosts) |-> NoResult]
    /\ issued = [i \in 1..Len(hosts) |-> <<>>]
    /\ finished = <<>>
    /\ snapshot = {}
    /\ collected = <<>>
    /\ results = <<>>
    /\ exc = "none"
    /\ serial = NoSummary
    /\ ret = NoRet
    /\ prev = NoRet
    /\ args = NoArgs

\* the steps of the thread that called the dispatcher
CallerStep ==
    \/ \E mw \in LiveWorkers : Call(mw)
    \/ Submit
    \/ BeginCollect
    \/ \E i \in 1..N : Collect(i)
    \/ CollectNone
    \/ Exit

\* a pool thread takes a work item
WorkerStart == \E i \in 1..N : Start(i)

\* the pool thread running work item i gets the answer of its command
WorkerEnd(i) == i \in 1..N /\ Complete(i)

NextLive ==
    \/ CallerStep
    \/ WorkerStart
    \/ \E i \in 1..MaxLiveHosts : WorkerEnd(i)

\* every thread that can take a step is eventually scheduled, and a remote
\* command that does not hang eventually returns or fails
Fairness ==
    /\ WF_vars(CallerStep)
    /\ WF_vars(WorkerStart)
    /\ \A i \in 1..MaxLiveHosts : WF_vars(WorkerEnd(i))

SpecLive == InitLive /\ [][NextLive]_vars /\ Fairness

----------------------------------------------------------------------------
(* Direct single-host calls, as the CLI makes them for one host index *)

AllOps == {"start", "stop", "restart", "check", "metrics"}

OpsServices == {"nginx", "redis"}

IsActiveAnswers ==
    {Ok(<<"active", "\n">>), Ok(<<"inactive", "\n">>), Ok(<<"failed">>),
     Ok(<<"activating", "\n">>), Ok(<<"unknown">>), Ok(<<>>),
     Fail(<<"exit status 3">>)}

StatusAnswers ==
    {Ok(<<"Loaded:", " ", "loaded", "\n",
          "Active:", " ", "inactive", " ", "(", "dead", ")">>),
     Ok(<<"Active:", " ", " ", "activating", " ", "(", "start", ")">>),
     Ok(<<"Active:", "(", "dead", ")", "\n", "Active:", "\n", "failed">>),
     Ok(<<"Unit", " ", "not", " ", "found">>),
     Ok(<<>>),
     Fail(<<"exit status 3">>)}

ActionAnswers == {Ok(<<>>), Fail(<<"Job failed">>)}

MainPidAnswers == {Ok(<<"11", "\n">>), Ok(<<"14">>), Ok(<<"0", "\n">>),
                   Ok(<<>>), Fail(<<"exit status 1">>)}

PgrepAnswers ==
    {Ok(<<>>),
     Ok(<<"11", "\n", "12", "\n", "13", "\n">>),
     Ok(<<"11", "\n", " ", "\n", "12">>),
     Ok(<<"12", "\n", "15", "\n">>),
     Ok(<<"11", "\n", "12", "\n", "13", "\n", "14", "\n", "15", "\n",
          "16", "\n", "17">>),
     Fail(<<"exit status 1">>)}

PsTables ==
    {[p \in Pids |-> PsLine("1.0", "2.0")],
     [p \in Pids |->
         CASE p = "11" -> PsLine("1.0", "2.0")
           [] p = "12" -> PsLine("2.0", "3.0")
           [] p = "13" -> PsLine("0.5", "1.0")
           [] p = "14" -> PsLine("0.0", "3.0")
           [] OTHER -> PsLine("3.0", "0.5")],
     [p \in Pids |->
         CASE p = "11" -> PsLine("0.0", "1.0")
           [] p = "12" -> Fail(<<"exit status 1">>)
           [] p = "13" -> Ok(<<"2.0", " ", "n/a">>)
           [] p = "14" -> Ok(<<"n/a", " ", "2.0">>)
           [] p = "15" -> Ok(<<"1.0">>)
           [] OTHER -> Ok(<<>>)],
     [p \in Pids |-> Fail(<<"exit status 1">>)]}

\* the remote behaviours tried for an operation: everything the operation
\* reads varies, the rest is as on a healthy host
OpsRemotes(o) ==
    CASE o = "start" ->
           {[Healthy EXCEPT !.up = u, !.start = a] :
               u \in BOOLEAN, a \in ActionAnswers}
      [] o = "stop" ->
           {[Healthy EXCEPT !.up = u, !.stop = a] :
               u \in BOOLEAN, a \in ActionAnswers}
      [] o = "restart" ->
           {[Healthy EXCEPT !.up = u, !.restart = a] :
               u \in BOOLEAN, a \in ActionAnswers}
      [] o = "check" ->
           {[Healthy EXCEPT !.up = u, !.isactive = a, !.status = d] :
               u \in BOOLEAN, a \in IsActiveAnswers, d \in StatusAnswers}
      [] OTHER ->
           {[Healthy EXCEPT !.up = u, !.isactive = a, !.mainpid = m,
                            !.pgrep = g, !.ps = t] :
               u \in BOOLEAN,
               a \in {Ok(<<"active", "\n">>), Ok(<<>>),
                      Fail(<<"exit status 3">>)},
               m \in MainPidAnswers, g \in PgrepAnswers, t \in PsTables}

\* service_start, service_stop, service_restart, service_status and
\* monitor_metrics of the CLI without --all: the operation on hosts[i]
DirectCall(i) ==
    /\ pc = "idle"
    /\ op \in AllOps
    /\ ret' = OpCall(op, hosts[i], service_name)
    /\ pc' = "called"
    /\ UNCHANGED <<hosts, service_name, op, remote, max_workers, nsub, task,
                   future, issued, finished, snapshot, collected, results,
                   exc, serial, args, prev>>

InitOps ==
    /\ op \in AllOps
    /\ service_name \in OpsServices
    /\ \E entry \in HostEntries :
          /\ hosts = <<entry>>
          /\ \E b \in OpsRemotes(op) : remote = [n \in HostNames |-> b]
    /\ max_workers = 0
    /\ pc = "idle"
    /\ nsub = 0
    /\ task = [i \in 1..Len(hosts) |-> "new"]
    /\ future = [i \in 1..Len(hosts) |-> NoResult]
    /\ issued = [i \in 1..Len(hosts) |-> <<>>]
    /\ finished = <<>>
    /\ snapshot = {}
    /\ collected = <<>>
    /\ results = <<>>
    /\ exc = "none"
    /\ serial = NoSummary
    /\ ret = NoRet
    /\ prev = NoRet
    /\ args = NoArgs

NextOps == \E i \in 1..N : DirectCall(i)

SpecOps == InitOps /\ [][NextOps]_vars

----------------------------------------------------------------------------
(* Direct calls and dispatches side by side: the CLI with a host index *)
(* and with --all, over lists of at most MaxPairHosts hosts            *)

InitActions == InitOps \/ InitPair

NextActions == NextOps \/ Next

SpecActions == InitActions /\ [][NextActions]_vars

----------------------------------------------------------------------------
(* The monitoring commands of the CLI: health for one host, dashboard *)
(* for all hosts                                                      *)

MaxReportHosts == 3

MonOps == {"monitor", "dashboard"}

\* --cpu-threshold and --memory-threshold in tenths, and no thresholds
ThresholdChoices ==
    {None, [cpu |-> 800, memory |-> 800], [cpu |-> 850, memory |-> 900],
     [cpu |-> 10, memory |-> 20], [cpu |-> 0, memory |-> 0]}

SmtpChoices == [user : {"", Placeholder, "ops@example.com"},
                delivers : BOOLEAN]

\* the %cpu and %mem columns ps may show for the processes of the service
MonitorSamples ==
    {<<"85.0", "90.0">>, <<"80.0", "80.0">>, <<"1.0", "90.0">>,
     <<"85.0", "2.0">>, <<"0.0", "0.0">>}

MonitorRemotes ==
    {[Healthy EXCEPT !.up = u, !.isactive = a,
                     !.ps = [p \in Pids |-> PsLine(c[1], c[2])]] :
        u \in BOOLEAN,
        a \in {Ok(<<"active", "\n">>), Ok(<<"failed", "\n">>),
               Ok(<<"running">>), Fail(<<"exit status 3">>)},
        c \in MonitorSamples}

ReportRemotes ==
    {Unreachable, Healthy,
     [Healthy EXCEPT !.isactive = Ok(<<"inactive", "\n">>),
                     !.mainpid = Ok(<<"0", "\n">>), !.pgrep = Ok(<<>>)],
     [Healthy EXCEPT !.isactive = Fail(<<"exit status 3">>)]}

\* monitor_health of the CLI: monitor_service_health on hosts[i]
MonitorCall(i) ==
    /\ pc = "idle"
    /\ op = "monitor"
    /\ ret' = monitor_service_health(hosts[i], service_name,
                                     args.thresholds, args.smtp)
    /\ pc' = "called"
    /\ UNCHANGED <<hosts, service_name, op, remote, max_workers, nsub, task,
                   future, issued, finished, snapshot, collected, results,
                   exc, serial, args, prev>>

\* monitor_dashboard of the CLI
DashboardCall ==
    /\ pc = "idle"
    /\ op = "dashboard"
    /\ ret' = monitor_dashboard(hosts, service_name)
    /\ pc' = "called"
    /\ UNCHANGED <<hosts, service_name, op, remote, max_workers, nsub, task,
                   future, issued, finished, snapshot, collected, results,
                   exc, serial, args, prev>>

InitMon ==
    /\ op \in MonOps
    /\ service_name \in Services
    /\ \/ /\ op = "monitor"
          /\ \E entry \in HostEntries : hosts = <<entry>>
          /\ \E b \in MonitorRemotes : remote = [n \in HostNames |-> b]
          /\ args \in [kind : {"monitor"}, thresholds : ThresholdChoices,
                        smtp : SmtpChoices]
       \/ /\ op = "dashboard"
          /\ hosts \in UNION {[1..n -> HostEntries] : n \in 0..MaxReportHosts}
          /\ remote \in [HostNames -> ReportRemotes]
          /\ args = NoArgs
    /\ max_workers = 0
    /\ pc = "idle"
    /\ nsub = 0
    /\ task = [i \in 1..Len(hosts) |-> "new"]
    /\ future = [i \in 1..Len(hosts) |-> NoResult]
    /\ issued = [i \in 1..Len(hosts) |-> <<>>]
    /\ finished = <<>>
    /\ snapshot = {}
    /\ collected = <<>>
    /\ results = <<>>
    /\ exc = "none"
    /\ serial = NoSummary
    /\ ret = NoRet
    /\ prev = NoRet

NextMon ==
    \/ \E i \in 1..N : MonitorCall(i)
    \/ DashboardCall

SpecMon == InitMon /\ [][NextMon]_vars

----------------------------------------------------------------------------
(* The status check made twice in a row, as two `service status` runs *)

TimeStamps == {"10:00:00", "10:00:01"}

\* the text of `systemctl status` at a later moment: the state is the
\* same, the time-bearing detail after it is not
Stamped(answer, t) ==
    IF answer.failed \/ answer.stdout = <<>> THEN answer
    ELSE [answer EXCEPT !.stdout = @ \o <<" ", "since", " ", t>>]

\* time passes on the remote side between the two calls; the state of the
\* service does not change
Tick ==
    /\ pc = "called"
    /\ \E t \in TimeStamps :
          remote' = [n \in HostNames |->
                        [remote[n] EXCEPT !.status = Stamped(@, t)]]
    /\ pc' = "later"
    /\ UNCHANGED <<hosts, service_name, op, max_workers, nsub, task, future,
                   issued, finished, snapshot, collected, results, exc,
                   serial, ret, args, prev>>

\* the second call, for the same host and service
SecondCall(i) ==
    /\ pc \in {"called", "later"}
    /\ prev' = ret
    /\ ret' = OpCall(op, hosts[i], service_name)
    /\ pc' = "called twice"
    /\ UNCHANGED <<hosts, service_name, op, remote, max_workers, nsub, task,
                   future, issued, finished, snapshot, collected, results,
                   exc, serial, args>>

InitTwice == InitOps /\ op = "check"

NextTwice ==
    \/ \E i \in 1..N : DirectCall(i)
    \/ Tick
    \/ \E i \in 1..N : SecondCall(i)

SpecTwice == InitTwice /\ [][NextTwice]_vars

----------------------------------------------------------------------------
(* `config validate` of the CLI: validate_config on a loaded JSON file *)

\* what may be stored under 'service'
ServiceValues ==
    {PyValue("dict", ks) : ks \in SUBSET Range(required_keys)}
        \cup {PyValue("dict", Range(required_keys) \cup {"extra"}),
              PyValue("list", Range(required_keys)),
              PyValue("list", {}),
              PyValue("str", {"name"}),
              PyValue("NoneType", {}),
              PyValue("int", {})}

\* the JSON documents tried
Configs ==
    {PyConfig(ks \cup {"service"}, v) :
         ks \in SUBSET {"wrong_key"}, v \in ServiceValues}
        \cup {PyConfig(ks, PyValue("NoneType", {})) :
                  ks \in SUBSET {"wrong_key"}}
        \cup {PyValue(t, {}) : t \in {"list", "str", "NoneType", "int"}}

\* validate_config_cmd: validate_config(config_dict)
ValidateCall ==
    /\ pc = "idle"
    /\ op = "validate"
    /\ ret' = validate_config(args.config)
    /\ pc' = "called"
    /\ UNCHANGED <<hosts, service_name, op, remote, max_workers, nsub, task,
                   future, issued, finished, snapshot, collected, results,
                   exc, serial, args, prev>>

InitCfg ==
    /\ op = "validate"
    /\ service_name \in Services
    /\ hosts = <<>>
    /\ remote = [n \in HostNames |-> Healthy]
    /\ args \in [kind : {"validate"}, config : Configs]
    /\ max_workers = 0
    /\ pc = "idle"
    /\ nsub = 0
    /\ task = <<>>
    /\ future = <<>>
    /\ issued = <<>>
    /\ finished = <<>>
    /\ snapshot = {}
    /\ collected = <<>>
    /\ results = <<>>
    /\ exc = "none"
    /\ serial = NoSummary
    /\ ret = NoRet
    /\ prev = NoRet

NextCfg == ValidateCall

SpecCfg == InitCfg /\ [][NextCfg]_vars

----------------------------------------------------------------------------
(* src/src/config_manager.py: deploy_config, and upload_file of ssh.py *)

\* a remote path: os.path.dirname(path) and the rest
TargetPaths ==
    {[dir |-> "/etc/app", base |-> "config.json"],
     [dir |-> "", base |-> "config.json"]}

\* f"{target_path}.bak"
backup_path(target_path) == [target_path EXCEPT !.base = @ \o ".bak"]

\* f"cp {target_path} {backup_path}"
CpCmd(target_path) ==
    Cmd("cp", [from |-> target_path, to |-> backup_path(target_path)])

DeployConfigs == {[port |-> "80"], [port |-> "8080"]}

\* json.dumps(config, indent=4), the text json.dump writes to the temp file
JsonDump(config) ==
    <<"{", "\n", "    ", "\"port\"", ":", " ", config.port, "\n", "}">>

OldText == JsonDump([port |-> "80"])

OlderText == <<"{", "}">>

UploadFailed(name, inner) == <<"File upload failed to ", name, ": ">> \o inner

\* the commands upload_file sends: mkdir -p when the path has a directory,
\* then the SFTP put
UploadCmds(name, remote_path) ==
    LET mk == [host |-> name, command |-> Cmd("mkdir", remote_path.dir),
               sudo |-> FALSE, reached |-> remote[name].up]
        put == [host |-> name, command |-> Cmd("put", remote_path),
                sudo |-> FALSE, reached |-> remote[name].up]
    IN IF remote_path.dir # ""
       THEN IF remote[name].up THEN <<mk, put>> ELSE <<mk>>
       ELSE <<put>>

\* upload_file: the answer of mkdir is not looked at (warn=True); a failed
\* connection or a failed put raises, wrapped with the host name
upload_file(host_config, local_text, remote_path) ==
    IF ~HasHost(host_config)
    THEN Raise("KeyError", <<"'host'">>, <<>>)
    ELSE LET name == host_config.host
             log == UploadCmds(name, remote_path)
         IN IF ~remote[name].up
            THEN Raise("Exception", UploadFailed(name, ConnError), log)
            ELSE IF ~remote[name].writable
            THEN Raise("Exception",
                       UploadFailed(name, <<"Permission denied">>), log)
            ELSE Ret(TRUE, log)

\* the remote files after a cp that succeeded
AfterCp(rem) == [rem EXCEPT !.files.bak = rem.files.target]

\* the remote files after a put that succeeded
AfterPut(rem, text) == [rem EXCEPT !.files.target = File(text)]

\* a step of deploy_config that has been attempted, with its commands
Step(name, r) == [step |-> name, failed |-> r.raised, cmds |-> r.log]

\* the call is under way: nothing returned yet, the steps so far
Pending(steps) == [raised |-> FALSE, value |-> [pending |-> TRUE],
                   log |-> steps]

\* entry of deploy_config: the temp file is written
DeployCall ==
    /\ pc = "idle"
    /\ op = "deploy"
    /\ pc' = "backup"
    /\ ret' = Pending(<<>>)
    /\ UNCHANGED <<hosts, service_name, op, remote, max_workers, nsub, task,
                   future, issued, finished, snapshot, collected, results,
                   exc, serial, args, prev>>

\* what the backup step leaves on the target host
Backed(r) ==
    IF r.raised THEN remote
    ELSE [remote EXCEPT ![hosts[1].host] = AfterCp(@)]

\* variant: a failed backup ends the call with False
Backup_orAbort ==
    /\ pc = "backup"
    /\ LET r == run_command(hosts[1], CpCmd(args.target_path), FALSE)
       IN /\ remote' = Backed(r)
          /\ IF r.raised
             THEN /\ ret' = Ret(FALSE, Append(ret.log, Step("backup", r)))
                  /\ pc' = "called"
             ELSE /\ ret' = Pending(Append(ret.log, Step("backup", r)))
                  /\ pc' = "diff"
    /\ UNCHANGED <<hosts, service_name, op, max_workers, nsub, task,
                   future, issued, finished, snapshot, collected, results,
                   exc, serial, args, prev>>

\* the backup step: cp of the target to <target>.bak; any exception is
\* reported and the call goes on
Backup ==
    /\ pc = "backup"
    /\ LET r == run_command(hosts[1], CpCmd(args.target_path), FALSE)
       IN /\ remote' = Backed(r)
          /\ ret' = Pending(Append(ret.log, Step("backup", r)))
    /\ pc' = "diff"
    /\ UNCHANGED <<hosts, service_name, op, max_workers, nsub, task,
                   future, issued, finished, snapshot, collected, results,
                   exc, serial, args, prev>>

\* the diff step: cat of the target, compared with the new text; any
\* exception is reported and the call goes on
Diff ==
    /\ pc = "diff"
    /\ LET r == run_command(hosts[1], Cmd("cat", args.target_path), FALSE)
       IN ret' = Pending(Append(ret.log, Step("diff", r)))
    /\ pc' = "upload"
    /\ UNCHANGED <<hosts, service_name, op, remote, max_workers, nsub, task,
                   future, issued, finished, snapshot, collected, results,
                   exc, serial, args, prev>>

\* what the upload step leaves on the target host
Uploaded(r) ==
    IF r.raised THEN remote
    ELSE [remote EXCEPT ![hosts[1].host] = AfterPut(@, JsonDump(args.config))]

\* the upload step and the return: True when upload_file returned, False
\* when it raised
Upload ==
    /\ pc = "upload"
    /\ LET r == upload_file(hosts[1], JsonDump(args.config), args.target_path)
       IN /\ remote' = Uploaded(r)
          /\ ret' = Ret(~r.raised, Append(ret.log, Step("upload", r)))
    /\ pc' = "called"
    /\ UNCHANGED <<hosts, service_name, op, max_workers, nsub, task,
                   future, issued, finished, snapshot, collected, results,
                   exc, serial, args, prev>>

\* the connection to a host is lost or comes back between two steps
Flap(n) ==
    /\ pc \in {"backup", "diff", "upload"}
    /\ remote' = [remote EXCEPT ![n].up = ~@]
    /\ UNCHANGED <<hosts, service_name, op, max_workers, pc, nsub, task,
                   future, issued, finished, snapshot, collected, results,
                   exc, serial, ret, args, prev>>

\* a target host: reachable or not, with or without a previous config and
\* an older backup, the backup and the target writable or not
DeployRemotes ==
    {[up |-> u, hangs |-> FALSE, bakwritable |-> bw, writable |-> w,
      files |-> [target |-> t, bak |-> b]] :
        u \in BOOLEAN, bw \in BOOLEAN, w \in BOOLEAN,
        t \in {Absent, File(OldText)}, b \in {Absent, File(OlderText)}}

\* a host the call does not touch
Bystander ==
    [up |-> TRUE, hangs |-> FALSE, bakwritable |-> TRUE, writable |-> TRUE,
     files |-> [target |-> Absent, bak |-> Absent]]

InitDeploy ==
    /\ op = "deploy"
    /\ service_name \in Services
    /\ \E entry \in HostEntries :
          /\ hosts = <<entry>>
          /\ \E b \in DeployRemotes :
                remote = [n \in HostNames |->
                             IF HasHost(entry) /\ n = entry.host
                             THEN b ELSE Bystander]
    /\ args \in [kind : {"deploy"}, config : DeployConfigs,
                 target_path : TargetPaths]
    /\ max_workers = 0
    /\ pc = "idle"
    /\ nsub = 0
    /\ task = <<>>
    /\ future = <<>>
    /\ issued = <<>>
    /\ finished = <<>>
    /\ snapshot = {}
    /\ collected = <<>>
    /\ results = <<>>
    /\ exc = "none"
    /\ serial = NoSummary
    /\ ret = NoRet
    /\ prev = NoRet

NextDeploy ==
    \/ DeployCall
    \/ Backup
    \/ Diff
    \/ Upload
    \/ \E n \in HostNames : Flap(n)

SpecDeploy == InitDeploy /\ [][NextDeploy]_vars

----------------------------------------------------------------------------
(* Properties *)

Done == pc \in {"returned", "raised"}

AllHaveHost == \A i \in 1..N : HasHost(hosts[i])

HostsOf(s) == BagOfSeq([i \in 1..Len(s) |-> s[i].host])

\* the remote command of the operation fails on the host of that name
Failing(name) ==
    \/ ~remote[name].up
    \/ op = "start" /\ remote[name].start.failed
    \/ op = "stop" /\ remote[name].stop.failed

\* C1: when every entry of the host list carries a 'host' field, the list a
\* dispatcher returns has exactly one outcome per input element, whatever
\* commands failed: the multiset of its 'host' values is the multiset of
\* the 'host' values of the input, duplicates included.
C1_OneOutcomePerHost ==
    (pc = "returned" /\ AllHaveHost) =>
        /\ Len(results) = N
        /\ HostsOf(results) = HostsOf(hosts)

\* a dispatch over three entries, one host named twice, every host failing
C1_Witness ==
    /\ pc = "returned"
    /\ N = 3
    /\ AllHaveHost
    /\ hosts[1] = hosts[3]
    /\ hosts[1] # hosts[2]
    /\ \A i \in 1..N : Failing(hosts[i].host)

\* C2 (as claimed): a dispatch over a non-empty host list whose pool was
\* created returns len(hosts) outcomes; an operation raising inside its
\* worker becomes an error outcome and no exception reaches the caller.
C2_NoExceptionEscapes ==
    (Done /\ N > 0 /\ max_workers >= 1) =>
        (pc = "returned" /\ Len(results) = N)

\* C3: a start dispatch that returns gives |H| outcomes; the outcome of a
\* host whose command failed has result "error" and a non-empty message
\* naming that host, the outcome of every other host has result "started".
C3_FailureIsolation ==
    (pc = "returned" /\ op = "start") =>
        /\ Len(results) = N
        /\ Len(collected) = N
        /\ Range(collected) = 1..N
        /\ \A k \in 1..N :
              LET h == hosts[collected[k]]
                  o == results[k]
              IN /\ o.host = h.host
                 /\ IF Failing(h.host)
                    THEN /\ o.result = "error"
                         /\ "error" \in DOMAIN o
                         /\ o.error # <<>>
                         /\ h.host \in Range(o.error)
                    ELSE /\ o.result = "started"
                         /\ "error" \notin DOMAIN o

\* one unreachable host among three: two started, one error
C3_Witness ==
    /\ pc = "returned"
    /\ op = "start"
    /\ N = 3
    /\ Cardinality({k \in 1..Len(results) : results[k].result = "error"}) = 1
    /\ Cardinality({k \in 1..Len(results) : results[k].result = "started"}) = 2

\* C4 (as claimed): with an empty host list, or an entry lacking 'host',
\* the dispatch fails before anything is submitted: no command is run on
\* any host and the call does not return normally.
C4_FailFast ==
    (pc # "idle" /\ (N = 0 \/ ~AllHaveHost)) =>
        /\ \A i \in 1..N : issued[i] = <<>>
        /\ pc # "returned"

\* C5 (as claimed): a dispatch with max_workers = len(hosts) ends the way
\* the dispatch with max_workers = 1 over the same hosts and the same
\* remote behaviour ended, with the same multiset of outcomes.
C5_SameOutcomes ==
    (Done /\ max_workers = N /\ serial.status # "none") =>
        Summary(pc, exc, results) = serial

\* C6: at every step of a dispatch the operations started and not yet
\* completed number at most max_workers and at most len(hosts), and an
\* operation starts only while fewer than max_workers are running.
C6_BoundedFanOut ==
    [][/\ Cardinality(Running') <= max_workers'
       /\ Cardinality(Running') <= N
       /\ \A i \in 1..N :
             (task[i] = "queued" /\ task'[i] = "running") =>
                 Cardinality(Running) < max_workers]_vars

\* every worker busy while a host waits for a slot
C6_Witness ==
    /\ max_workers = 2
    /\ Cardinality(Running) = 2
    /\ \E i \in 1..N : task[i] = "queued"

\* C7 (as claimed): the worker count of a dispatch is at least 1 for every
\* argument combination; constructing the pool never fails.
C7_AtLeastOneWorker ==
    pc # "idle" => (PoolSize(max_workers, N) >= 1 /\ exc # "ValueError")

\* C8 (as claimed): control leaves a dispatcher, by return or by an
\* exception, only when the operation of every host has completed.
C8_Synchronous ==
    Done => \A i \in 1..N : task[i] = "done"

\* C9: called with a host entry that has a 'host' field, each single-host
\* operation returns an outcome (it raises nothing) that carries this host
\* and the service name of the call, whatever the remote commands did.
C9_OutcomeCarriesHostAndService ==
    (pc = "called" /\ HasHost(hosts[1])) =>
        /\ ~ret.raised
        /\ {"host", "service"} \subseteq DOMAIN ret.value
        /\ ret.value.host = hosts[1].host
        /\ ret.value.service = service_name

\* the second command of a status check failed, and an outcome came back
C9_Witness ==
    /\ pc = "called"
    /\ op = "check"
    /\ HasHost(hosts[1])
    /\ Len(ret.log) = 2
    /\ remote[hosts[1].host].status.failed
    /\ ret.value.status = <<"error">>
    /\ ret.value.host = hosts[1].host

DocumentedStatuses ==
    {<<"active">>, <<"inactive">>, <<"failed">>, <<"error">>, <<"unknown">>}

\* C10 (as claimed): the status of every outcome of check_service_status
\* is one of active, inactive, failed, error, unknown.
C10_StatusInDocumentedSet ==
    (pc = "called" /\ op = "check" /\ ~ret.raised) =>
        ret.value.status \in DocumentedStatuses

----------------------------------------------------------------------------
(* Properties of the single-host status check *)

\* a direct call of the operation o on a host entry that carries 'host'
\* has come back
Called(o) == pc = "called" /\ op = o /\ HasHost(hosts[1])

\* what the host of the direct call answers
Answer == remote[hosts[1].host]

\* the verbs of the commands the call attempted, in order
Verbs(log) == [k \in 1..Len(log) |-> log[k].command.verb]

\* w is one word that follows an "Active:" and the whitespace after it
FollowsActive(detail, w) ==
    \E i \in 1..Len(detail), j \in 1..Len(detail) :
        /\ detail[i] = "Active:"
        /\ j > i + 1
        /\ \A k \in (i + 1)..(j - 1) : detail[k] \in WS
        /\ detail[j] \in Words
        /\ w = <<detail[j]>>

CheckFailure ==
    IF ~Answer.up THEN ConnError
    ELSE IF Answer.isactive.failed THEN Answer.isactive.stderr
    ELSE Answer.status.stderr

----------------------------------------------------------------------------
(* Properties of start, stop and restart *)

ActionOps == {"start", "stop", "restart"}

PastTense(o) ==
    CASE o = "start" -> "started"
      [] o = "stop" -> "stopped"
      [] OTHER -> "restarted"

\* what the remote of that name answers to the systemctl command of o
ActionAnswer(name, o) ==
    CASE o = "start" -> remote[name].start
      [] o = "stop" -> remote[name].stop
      [] OTHER -> remote[name].restart

\* the log holds one command: the privileged systemctl command of op
OneSudoCommand(log) ==
    /\ Len(log) = 1
    /\ log[1].sudo
    /\ log[1].command = Cmd(op, <<service_name>>)

\* C13: a call of start_service, stop_service or restart_service issues
\* exactly one privileged systemctl command and never a second one; the
\* result is "started", "stopped" or "restarted" when the command
\* succeeded and "error", with the failure message in 'error', when it
\* failed.  So a start or stop dispatch issues at most one command per
\* list element, exactly one for every completed element that names a
\* host, also when hosts fail.
C13_SingleAttempt ==
    /\ (pc = "called" /\ op \in ActionOps) =>
          IF ret.raised THEN ret.log = <<>>
          ELSE /\ OneSudoCommand(ret.log)
               /\ "result" \in DOMAIN ret.value
               /\ LET name == ret.log[1].host
                      a == ActionAnswer(name, op)
                  IN /\ ret.value.host = name
                     /\ IF remote[name].up /\ ~a.failed
                        THEN /\ ret.value.result = PastTense(op)
                             /\ "error" \notin DOMAIN ret.value
                        ELSE /\ ret.value.result = "error"
                             /\ "error" \in DOMAIN ret.value
                             /\ IF remote[name].up
                                THEN Range(a.stderr)
                                         \subseteq Range(ret.value.error)
                                ELSE Range(ConnError)
                                         \subseteq Range(ret.value.error)
    /\ (pc \notin {"idle", "called"} /\ op \in {"start", "stop"}) =>
          \A i \in 1..N :
              /\ Len(issued[i]) <= 1
              /\ (task[i] = "done" /\ HasHost(hosts[i])) =>
                     /\ OneSudoCommand(issued[i])
                     /\ issued[i][1].host = hosts[i].host

\* a start dispatch over two hosts came back: one host failed, each got
\* one command
C13_Witness ==
    /\ pc = "returned"
    /\ op = "start"
    /\ N = 2
    /\ AllHaveHost
    /\ Failing(hosts[1].host)
    /\ ~Failing(hosts[2].host)
    /\ \A i \in 1..N : OneSudoCommand(issued[i])
    /\ {results[k].result : k \in 1..Len(results)} = {"error", "started"}

----------------------------------------------------------------------------
(* Properties of collect_metrics *)

\* the commands of verb v among the commands a call attempted
Attempts(log, v) == {k \in 1..Len(log) : log[k].command.verb = v}

\* the pid systemd reports as MainPID of the service
MainPid == Strip(Answer.mainpid.stdout)

\* a remote-execution failure in the primary stage: the MainPID query
\* fails, or the ps sample of the main pid does
PrimaryFails ==
    \/ ~Answer.up
    \/ Answer.mainpid.failed
    \/ /\ Len(MainPid) = 1
       /\ MainPid[1] \in Pids
       /\ Answer.ps[MainPid[1]].failed

\* C14 (as claimed): the stages of collect_metrics fail independently:
\* when the status command fails, CPU and memory sampling is still
\* attempted, and when the primary sampling fails, the fallback by
\* process name is still attempted.
C14_StagesIndependent ==
    Called("metrics") =>
        /\ ~ret.raised
        /\ Attempts(ret.log, "is-active") # {}
        /\ Attempts(ret.log, "show-mainpid") # {}
        /\ PrimaryFails => Attempts(ret.log, "pgrep") # {}

\* the cpu value the primary stage left: what it sampled, and zero when
\* it sampled nothing, failed or was never reached
PrimaryCpu ==
    IF ~Answer.up \/ Answer.isactive.failed THEN 0
    ELSE PrimarySample(hosts[1], service_name).cpu

\* the sample of a pid line of the pgrep output, when it can be read
Readable(line) ==
    /\ Len(Strip(line)) = 1
    /\ Strip(line)[1] \in Pids
    /\ ~Answer.ps[Strip(line)[1]].failed
    /\ LET parts == Split(Answer.ps[Strip(line)[1]].stdout)
       IN Len(parts) >= 2 /\ IsFloat(parts[1]) /\ IsFloat(parts[2])

\* the sum of column c (1 cpu, 2 memory) over the readable samples
RECURSIVE SumReadable(_, _)
SumReadable(lines, c) ==
    IF lines = <<>> THEN 0
    ELSE (IF Readable(Head(lines))
          THEN float(Split(Answer.ps[Strip(Head(lines))[1]].stdout)[c])
          ELSE 0) + SumReadable(Tail(lines), c)

\* C15 (as claimed): the fallback by process name runs exactly when the
\* primary stage left cpu at zero; it samples at most the first 5 matched
\* pids, and cpu and memory become the sums of the samples that could be
\* read, a pid whose sample fails being skipped.
C15_FallbackSampling ==
    Called("metrics") =>
        /\ ~ret.raised
        /\ (Attempts(ret.log, "pgrep") # {}) <=> (PrimaryCpu = 0)
        /\ (/\ Attempts(ret.log, "pgrep") # {}
            /\ ~Answer.pgrep.failed
            /\ Strip(Answer.pgrep.stdout) # <<>>) =>
              LET matched == SplitLines(Strip(Answer.pgrep.stdout))
                  first == Take(matched, FallbackLimit)
                  at == CHOOSE k \in Attempts(ret.log, "pgrep") : TRUE
              IN /\ Cardinality({k \in Attempts(ret.log, "ps") : k > at})
                        <= 5
                 /\ ret.value.cpu = SumReadable(first, 1)
                 /\ ret.value.memory = SumReadable(first, 2)

----------------------------------------------------------------------------
(* Properties of monitor_service_health *)

\* the thresholds in force for the call
InForce == IF args.thresholds = None THEN DefaultThresholds
           ELSE args.thresholds

\* the positions of the alerts that begin with the given text
AlertsOf(alerts, text) ==
    {k \in 1..Len(alerts) : alerts[k] # <<>> /\ alerts[k][1] = text}

\* C16: the alert list of monitor_service_health holds "CPU usage high:
\* X%" iff cpu > thresholds.cpu, "Memory usage high: X%" iff memory >
\* thresholds.memory, "Service not active: <status>" iff the status is
\* neither active nor running, each at most once, in this order and
\* nothing else; with cpu 85.0, memory 90.0, status failed and thresholds
\* 80/80 it is the three alerts of the specification.
C16_ThresholdEvaluation ==
    Called("monitor") =>
        /\ ~ret.raised
        /\ "alerts" \in DOMAIN ret.value
        /\ LET m == ret.value
               a == m.alerts
               c == AlertsOf(a, "CPU usage high: ")
               y == AlertsOf(a, "Memory usage high: ")
               t == AlertsOf(a, "Service not active: ")
           IN /\ Cardinality(c) = (IF m.cpu > InForce.cpu THEN 1 ELSE 0)
              /\ Cardinality(y) = (IF m.memory > InForce.memory THEN 1 ELSE 0)
              /\ Cardinality(t) =
                    (IF m.status \notin {<<"active">>, <<"running">>}
                     THEN 1 ELSE 0)
              /\ Len(a) = Cardinality(c) + Cardinality(y) + Cardinality(t)
              /\ \A i \in c, j \in y \cup t : i < j
              /\ \A i \in y, j \in t : i < j
              /\ \A k \in t : a[k] = <<"Service not active: ">> \o m.status
              /\ (/\ m.cpu = 850
                  /\ m.memory = 900
                  /\ m.status = <<"failed">>
                  /\ InForce = [cpu |-> 800, memory |-> 800]) =>
                    a = << <<"CPU usage high: ", "85.0", "%">>,
                           <<"Memory usage high: ", "90.0", "%">>,
                           <<"Service not active: ", "failed">> >>

\* cpu 85.0, memory 90.0, status failed against thresholds 80/80
C16_Witness ==
    /\ Called("monitor")
    /\ args.thresholds = [cpu |-> 800, memory |-> 800]
    /\ ret.value.cpu = 850
    /\ ret.value.memory = 900
    /\ ret.value.status = <<"failed">>
    /\ Len(ret.value.alerts) = 3

\* C17: monitor_service_health sends exactly one notification per alert,
\* with severity WARNING and in the order of the alert list, none when
\* there is no alert; a notification that returns False stops neither the
\* later notifications nor the call, which returns the metrics with the
\* whole 'alerts' list.
C17_OneNotificationPerAlert ==
    Called("monitor") =>
        /\ ~ret.raised
        /\ "alerts" \in DOMAIN ret.value
        /\ {"host", "service", "status", "cpu", "memory"}
               \subseteq DOMAIN ret.value
        /\ Len(ret.notified) = Len(ret.value.alerts)
        /\ \A k \in 1..Len(ret.notified) :
              /\ ret.notified[k].severity = "WARNING"
              /\ ret.notified[k].message =
                     <<hosts[1].host, " - ", service_name, ": ">>
                         \o ret.value.alerts[k]
        /\ Len(ret.value.alerts) >=
               (IF ret.value.status \in {<<"active">>, <<"running">>}
                THEN 0 ELSE 1)

\* the mail server refused the first of three notifications
C17_Witness ==
    /\ Called("monitor")
    /\ Len(ret.value.alerts) = 3
    /\ Len(ret.notified) = 3
    /\ ret.notified[1].email
    /\ ~ret.notified[1].result

----------------------------------------------------------------------------
(* Properties of the report *)

\* the lines of a text, empty lines left out
Lines(text) == SplitAt(text, {"\n"}, FALSE, <<>>)

\* C18: the dashboard over host entries that all name a host makes a
\* report with one table row and one text line per host, in the order of
\* the host list (len(hosts)+1 lines with the header); a host that cannot
\* be reached is in it with an error status that is not active, and the
\* report is not aborted.
C18_OneRowPerHost ==
    (pc = "called" /\ op = "dashboard" /\ AllHaveHost) =>
        /\ ~ret.raised
        /\ {"rows", "text"} \subseteq DOMAIN ret.value
        /\ Len(ret.value.rows) = N
        /\ Len(Lines(ret.value.text)) = N + 1
        /\ \A i \in 1..N :
              /\ ret.value.rows[i].host = hosts[i].host
              /\ ret.value.rows[i].service = service_name
              /\ Lines(ret.value.text)[i + 1][2] = hosts[i].host
              /\ ~remote[hosts[i].host].up =>
                    /\ "error: " \in Range(ret.value.rows[i].status)
                    /\ "error: " \in Range(Lines(ret.value.text)[i + 1])
                    /\ "active" \notin Range(ret.value.rows[i].status)
                    /\ Head(ret.value.rows[i].status) = "[red]"

\* three hosts, the second of them unreachable
C18_Witness ==
    /\ pc = "called"
    /\ op = "dashboard"
    /\ N = 3
    /\ AllHaveHost
    /\ hosts[1].host # hosts[2].host
    /\ remote[hosts[1].host].up
    /\ ~remote[hosts[2].host].up
    /\ Len(ret.value.rows) = 3
    /\ Head(ret.value.rows[1].status) = "[green]"
    /\ Head(ret.value.rows[2].status) = "[red]"

----------------------------------------------------------------------------
(* Properties of repeated status checks *)

\* C19: two consecutive status checks of the same host and service, with
\* the state of the remote service unchanged between them, give the same
\* 'status', also when the detail text of `systemctl status` differs by
\* the time it bears.
C19_StatusIdempotent ==
    (pc = "called twice" /\ HasHost(hosts[1])) =>
        /\ ~prev.raised
        /\ ~ret.raised
        /\ {"status"} \subseteq DOMAIN prev.value \cap DOMAIN ret.value
        /\ ret.value.status = prev.value.status

\* both calls read the detail text, which had changed, and said inactive
C19_Witness ==
    /\ pc = "called twice"
    /\ HasHost(hosts[1])
    /\ "raw" \in DOMAIN prev.value \cap DOMAIN ret.value
    /\ ret.value.raw # prev.value.raw
    /\ prev.value.status = <<"inactive">>
    /\ ret.value.status = <<"inactive">>
    /\ Verbs(ret.log) = <<"is-active", "status">>

----------------------------------------------------------------------------
(* Properties of validate_config *)

\* the config is a dict whose 'service' entry is a dict with all of the
\* six required keys
WellFormed(config) ==
    /\ config.type = "dict"
    /\ "service" \in config.has
    /\ config.service.type = "dict"
    /\ Range(required_keys) \subseteq config.service.has

\* C20 (as claimed): validate_config raises nothing; it returns True
\* when the config has a 'service' entry with all of name, version, env,
\* port, max_memory, healthcheck, and False for every other input.
C20_ValidateTotal ==
    (pc = "called" /\ op = "validate") =>
        /\ ~ret.raised
        /\ ret.value = WellFormed(args.config)

----------------------------------------------------------------------------
(* Properties of the order and the isolation of a dispatch *)

\* the position of index i in a sequence of indices, 0 when it is not there
PosIn(s, i) ==
    IF \E k \in 1..Len(s) : s[k] = i
    THEN CHOOSE k \in 1..Len(s) : s[k] = i
    ELSE 0

\* C21 (as claimed): the returned list is in completion order: when the
\* operation of host A completed before that of host B, the outcome of A
\* stands before the outcome of B, also for operations that had completed
\* before the dispatcher began to collect.
C21_CompletionOrder ==
    pc = "returned" =>
        /\ Len(results) = Len(collected)
        /\ \A a, b \in 1..N :
              (/\ PosIn(finished, a) # 0
               /\ PosIn(finished, a) < PosIn(finished, b)) =>
                  PosIn(collected, a) < PosIn(collected, b)

\* the outcome the operation gives for a host entry that names its host:
\* what a dispatch in which nothing raises returns for it (C3)
OutcomeAsUsual(o, h) ==
    /\ "host" \in DOMAIN o
    /\ o.host = h.host
    /\ CASE op = "start" ->
              /\ "result" \in DOMAIN o
              /\ o.result = IF Failing(h.host) THEN "error" ELSE "started"
         [] op = "stop" ->
              /\ "result" \in DOMAIN o
              /\ o.result = IF Failing(h.host) THEN "error" ELSE "stopped"
         [] OTHER ->
              /\ "status" \in DOMAIN o
              /\ o.status = IF Failing(h.host) THEN <<"error">>
                                                 ELSE <<"active">>

\* how many times the operation of host i has ended
Endings(i) == Cardinality({k \in 1..Len(finished) : finished[k] = i})

\* C22: when the operation of one host raised and the dispatch ended with
\* that exception, the operation of every host of the list has been started
\* and has run to its end exactly once, and every host entry that names its
\* host has produced the outcome it produces in a dispatch where nothing
\* raises.
C22_RaiseIsolated ==
    (pc = "raised" /\ \E i \in Range(collected) : future[i].raised) =>
        \A i \in 1..N :
            /\ task[i] = "done"
            /\ Endings(i) = 1
            /\ HasHost(hosts[i]) =>
                  /\ ~future[i].raised
                  /\ OutcomeAsUsual(future[i].value, hosts[i])
                  /\ op \in {"start", "stop"} => Len(issued[i]) <= 1
                  /\ (op \in {"start", "stop"} /\ remote[hosts[i].host].up)
                        => Len(issued[i]) = 1

\* the first of three operations raised and was the only one collected;
\* the other two ended after it, one started and one in error
C22_Witness ==
    /\ pc = "raised"
    /\ op = "start"
    /\ N = 3
    /\ max_workers = 1
    /\ ~HasHost(hosts[1])
    /\ collected = <<1>>
    /\ snapshot = {1}
    /\ finished = <<1, 2, 3>>
    /\ HasHost(hosts[2]) /\ HasHost(hosts[3])
    /\ ~future[2].raised /\ future[2].value.result = "started"
    /\ ~future[3].raised /\ future[3].value.result = "error"

----------------------------------------------------------------------------
(* Termination of a dispatch *)

Hung == {i \in 1..N : Hangs(i)}

Others == (1..N) \ Hung

\* C23: in a dispatch with max_workers >= 1 under fair scheduling: when no
\* remote command hangs the call eventually ends; when a remote command
\* never completes the call never ends and a pool thread stays on that
\* command forever, while with max_workers >= 2 and one command hanging
\* the operations of all other hosts still come to their end.
C23_Termination ==
    /\ (Hung = {}) => <>Done
    /\ (Hung # {}) => [](~Done)
    /\ (Hung # {}) => <>[](\E i \in Hung : task[i] = "running")
    /\ [](  (max_workers >= 2 /\ Cardinality(Hung) = 1)
          => <>(\A i \in Others : task[i] = "done"))

\* two workers, the command of the first host hangs: the second host's
\* operation has ended and was collected, the call waits for the first
C23_Witness ==
    /\ pc = "collect"
    /\ N = 2
    /\ max_workers = 2
    /\ Hung = {1}
    /\ task = <<"running", "done">>
    /\ collected = <<2>>
    /\ Yieldable = {}

\* no command hangs, and the call has ended after a collection that had
\* to wait for an operation still running when it began
C23_WitnessEnds ==
    /\ Done
    /\ N = 2
    /\ Hung = {}
    /\ snapshot # 1..N

----------------------------------------------------------------------------
(* Properties of deploy_config *)

Deploying == op = "deploy" /\ pc \in {"backup", "diff", "upload", "called"}

StepNames == [k \in 1..Len(ret.log) |-> ret.log[k].step]

\* the put of the upload step reached a host that accepted the file
PutAccepted(s) ==
    \E k \in 1..Len(s.cmds) :
        /\ s.cmds[k].command.verb = "put"
        /\ s.cmds[k].reached
        /\ remote[s.cmds[k].host].writable

\* C24: deploy_config attempts the backup, then the diff, then the upload,
\* each once, whatever the backup and the diff did; it returns without
\* raising, True exactly when the put was accepted by the host, and after
\* a failed upload a backup made in the same call is still the copy of the
\* target.
C24_DeployOrder ==
    Deploying =>
        /\ StepNames = SubSeq(<<"backup", "diff", "upload">>, 1,
                              Len(ret.log))
        /\ Len(ret.log) = CASE pc = "backup" -> 0
                             [] pc = "diff" -> 1
                             [] pc = "upload" -> 2
                             [] OTHER -> 3
        /\ pc = "called" =>
              /\ ~ret.raised
              /\ ret.value \in BOOLEAN
              /\ Len(ret.log) = 3
              /\ ret.value <=> PutAccepted(ret.log[3])
              /\ ret.value =>
                    remote[hosts[1].host].files.target
                        = File(JsonDump(args.config))
              /\ (~ret.value /\ ~ret.log[1].failed) =>
                    /\ remote[hosts[1].host].files.bak.exists
                    /\ remote[hosts[1].host].files.bak
                          = remote[hosts[1].host].files.target

\* the backup failed for want of permission, the diff was made, and the
\* upload was still attempted and succeeded
C24_Witness ==
    /\ op = "deploy"
    /\ pc = "called"
    /\ Len(ret.log) = 3
    /\ ret.log[1].failed
    /\ ret.log[1].cmds # <<>>
    /\ ret.log[1].cmds[1].reached
    /\ ~ret.log[2].failed
    /\ ~ret.raised
    /\ ret.value = TRUE

\* the backup was made, the upload failed: False, the backup in place
C24_WitnessFailed ==
    /\ op = "deploy"
    /\ pc = "called"
    /\ Len(ret.log) = 3
    /\ ~ret.log[1].failed
    /\ ret.log[3].failed
    /\ ~ret.raised
    /\ ret.value = FALSE
    /\ remote[hosts[1].host].files.bak = File(OldText)

----------------------------------------------------------------------------
(* Properties of the two sampling stages of collect_metrics *)

\* the columns of the ps line of the main pid, when the primary stage got
\* that far and the line could be fetched
MainLine ==
    IF /\ Answer.up
       /\ ~Answer.isactive.failed
       /\ ~Answer.mainpid.failed
       /\ Len(MainPid) = 1
       /\ MainPid[1] \in Pids
       /\ ~Answer.ps[MainPid[1]].failed
    THEN Split(Answer.ps[MainPid[1]].stdout)
    ELSE <<>>

\* what the primary stage alone gives for column c (1 cpu, 2 memory)
MainSample(c) ==
    IF Len(MainLine) >= 2 /\ IsFloat(MainLine[1])
                         /\ (c = 2 => IsFloat(MainLine[2]))
    THEN float(MainLine[c])
    ELSE 0

\* the ps line of a pid line of the pgrep output
LineOf(line) ==
    IF /\ Len(Strip(line)) = 1
       /\ Strip(line)[1] \in Pids
       /\ ~Answer.ps[Strip(line)[1]].failed
    THEN Split(Answer.ps[Strip(line)[1]].stdout)
    ELSE <<>>

\* what the sample of a pid line adds to the total of column c: the cpu
\* counts once it is a number, the memory once both columns are
Adds(line, c) ==
    IF Len(LineOf(line)) >= 2 /\ IsFloat(LineOf(line)[1])
                              /\ (c = 2 => IsFloat(LineOf(line)[2]))
    THEN float(LineOf(line)[c])
    ELSE 0

\* what the fallback stage alone gives for column c
RECURSIVE FallbackSum(_, _)
FallbackSum(lines, c) ==
    IF lines = <<>> THEN 0
    ELSE Adds(Head(lines), c) + FallbackSum(Tail(lines), c)

\* pgrep matched something
Matched == ~Answer.pgrep.failed /\ Strip(Answer.pgrep.stdout) # <<>>

FirstMatched == Take(SplitLines(Strip(Answer.pgrep.stdout)), FallbackLimit)

\* C25: the cpu and memory collect_metrics reports are the primary sample
\* alone or the fallback sums alone: a fallback whose pgrep matched
\* overwrites both with its sums (0 and 0 when no matched pid could be
\* sampled), whatever memory the primary stage had read; a fallback whose
\* pgrep matched nothing, and a call without fallback, leave the primary
\* values.
C25_NoDoubleCounting ==
    (Called("metrics") /\ ~ret.raised) =>
        IF Attempts(ret.log, "pgrep") # {} /\ Matched
        THEN /\ ret.value.cpu = FallbackSum(FirstMatched, 1)
             /\ ret.value.memory = FallbackSum(FirstMatched, 2)
             /\ (\A k \in 1..Len(FirstMatched) :
                     Adds(FirstMatched[k], 1) = 0
                        /\ Adds(FirstMatched[k], 2) = 0)
                   => (ret.value.cpu = 0 /\ ret.value.memory = 0)
        ELSE /\ ret.value.cpu = MainSample(1)
             /\ ret.value.memory = MainSample(2)

\* the primary stage read cpu 0.0 and memory 3.0; the fallback summed
\* three samples to 3.5 and 6.0, and 6.0 is reported, not 9.0
C25_Witness ==
    /\ Called("metrics")
    /\ ~ret.raised
    /\ MainSample(1) = 0
    /\ MainSample(2) = 30
    /\ Attempts(ret.log, "pgrep") # {}
    /\ Matched
    /\ ret.value.cpu = 35
    /\ ret.value.memory = 60

\* the primary stage read a memory value, no matched pid could be
\* sampled: 0 and 0 are reported
C25_WitnessNone ==
    /\ Called("metrics")
    /\ ~ret.raised
    /\ MainSample(2) > 0
    /\ Attempts(ret.log, "pgrep") # {}
    /\ Matched
    /\ ret.value.cpu = 0
    /\ ret.value.memory = 0

\* the primary stage read a memory value and pgrep matched nothing: the
\* primary values stay
C25_WitnessKept ==
    /\ Called("metrics")
    /\ ~ret.raised
    /\ MainSample(2) > 0
    /\ Attempts(ret.log, "pgrep") # {}
    /\ ~Matched
    /\ ret.value.cpu = 0
    /\ ret.value.memory = MainSample(2)

====
